---- MODULE Spec2Model ----
(***************************************************************************)
(* Model of the hybrid retrieval front end of elastic-agent-search:        *)
(* HybridSearch.search and HybridSearch._build_filters                     *)
(* (src/src/search/hybrid_search.py), the documents ProductIndexer puts in *)
(* the index (src/src/indexing/index_data.py) and the two collaborators    *)
(* search calls: the embedding generator and the Elasticsearch client.     *)
(*                                                                         *)
(* Python values are tagged records, so that a number, a string, None and  *)
(* a vector can sit in the same dict.  A dict is a function whose domain   *)
(* is its key set; a list is a sequence.                                   *)
(***************************************************************************)
EXTENDS Integers, Sequences, FiniteSets, TLC

VARIABLES
    store,        \* the documents of the index: records [_id, _source]
    pc,           \* per caller: where its search invocation stands
    args,         \* per caller: the arguments search was called with
    query_vector, \* per caller: the local query_vector, once encoded
    request,      \* per caller: the request handed to client.search
    response,     \* per caller: the hits client.search answered
    outcome,      \* per caller: what search returned or raised
    embedCalls,   \* per caller: calls made to embedding_generator.encode_query
    searchCalls,  \* per caller: calls made to client.search
    searchAnswers, \* per caller: answers client.search gave
    searcher,     \* the attributes of the HybridSearch instance
    tState,       \* filter translation on its own: "input" or "done"
    tItems,       \* filter translation on its own: the dict's items as inserted
    tFilters,     \* filter translation on its own: the dict given
    tOut,         \* filter translation on its own: what _build_filters gave
    vOut,         \* the same dict given to VectorSearch._build_filters
    max_history,  \* SearchAgent.max_history
    conversation_history, \* SearchAgent.conversation_history
    chat,         \* the chat invocation under way: its position and locals
    exchanges     \* the exchanges chat completed since the last reset, in order

vars == <<store, pc, args, query_vector, request, response, outcome,
          embedCalls, searchCalls, searchAnswers, searcher, tState, tItems, tFilters, tOut, vOut,
          max_history, conversation_history, chat, exchanges>>

searchVars == <<store, pc, args, query_vector, request, response, outcome,
                embedCalls, searchCalls, searchAnswers>>

translateVars == <<tState, tItems, tFilters, tOut, vOut>>

agentVars == <<max_history, conversation_history, chat, exchanges>>

-----------------------------------------------------------------------------
(* Bounds of the model *)

\* largest top_k a caller passes (the smallest is -1)
MaxTopK == 2

\* largest number of keys in a filter dict handed to search
MaxFilterKeys == 1

\* largest number of keys in a filter dict handed to _build_filters alone
MaxTranslateKeys == 2

\* the backend's fused scores range over 1..MaxScore
MaxScore == 2

\* the largest MAX_CONVERSATION_HISTORY configured
MaxHistory == 2

\* the most exchanges of one conversation between two resets
MaxChats == 3

-----------------------------------------------------------------------------
(* Python values *)

Num(n) == [t |-> "num", n |-> n]

Str(s) == [t |-> "str", s |-> s]

Vec(text) == [t |-> "vec", of |-> text]

None == [t |-> "null"]

EmptyDict == [k \in {} |-> None]

IsNum(v) == v.t = "num"

IsStr(v) == v.t = "str"

\* the callers of search; a sequential program has one
Callers == {"c1", "c2"}

(* Bounded input sets *)

Queries == {"", "jacket"}

TopKs == (-1)..MaxTopK

\* semantic_weight in tenths: 0.5 (the default) and 1.0
SemanticWeights == {5, 10}

FilterNumbers == {1, 2}

PriceKeys == {"min_price", "max_price"}

NumericKeys == {"min_price", "max_price", "min_rating"}

KnownKeys == {"min_price", "max_price", "category", "brand", "min_rating"}

UnknownKeys == {"color"}

FilterKeys == KnownKeys \cup UnknownKeys

FilterValues(k) ==
    IF k \in NumericKeys THEN {Num(n) : n \in FilterNumbers} \cup {None, Str("abc")}
    ELSE IF k = "category" THEN {Str("a"), None, Str("")}
    ELSE IF k = "brand" THEN {Str("x"), None}
    ELSE {Str("red")}

AllFilterValues == UNION {FilterValues(k) : k \in FilterKeys}

\* the dicts with at most n keys
FilterDicts(n) ==
    UNION {{f \in [K -> AllFilterValues] : \A k \in K : f[k] \in FilterValues(k)} :
           K \in {K \in SUBSET FilterKeys : Cardinality(K) <= n}}

-----------------------------------------------------------------------------
(* HybridSearch._build_filters *)

\* the dict {"gte": filters['min_price'], "lte": filters['max_price']}, each
\* entry only when its key is in filters
PriceBounds(filters) ==
    [b \in {"gte" : k \in {"min_price"} \cap DOMAIN filters}
           \cup {"lte" : k \in {"max_price"} \cap DOMAIN filters}
        |-> IF b = "gte" THEN filters["min_price"] ELSE filters["max_price"]]

RangeClause(field, bounds) == [range |-> (field :> bounds)]

TermClause(field, value) == [term |-> (field :> value)]

\* a faulty variant: the clauses come out in the order rating, brand,
\* category, price
BuildFiltersRatingFirst(filters) ==
    (IF "min_rating" \in DOMAIN filters
     THEN <<RangeClause("rating", "gte" :> filters["min_rating"])>> ELSE <<>>)
    \o (IF "brand" \in DOMAIN filters
        THEN <<TermClause("brand", filters["brand"])>> ELSE <<>>)
    \o (IF "category" \in DOMAIN filters
        THEN <<TermClause("category", filters["category"])>> ELSE <<>>)
    \o (IF "min_price" \in DOMAIN filters \/ "max_price" \in DOMAIN filters
        THEN <<RangeClause("price", PriceBounds(filters))>> ELSE <<>>)

\* a faulty variant: every key but the price keys becomes a term clause
BuildFiltersTermForAnyKey(filters) ==
    (IF DOMAIN filters \cap PriceKeys # {}
     THEN <<RangeClause("price", PriceBounds(filters))>> ELSE <<>>)
    \o (IF "category" \in DOMAIN filters
        THEN <<TermClause("category", filters["category"])>> ELSE <<>>)
    \o (IF "brand" \in DOMAIN filters
        THEN <<TermClause("brand", filters["brand"])>> ELSE <<>>)
    \o (IF "min_rating" \in DOMAIN filters
        THEN <<RangeClause("rating", "gte" :> filters["min_rating"])>> ELSE <<>>)
    \o (IF "color" \in DOMAIN filters
        THEN <<TermClause("color", filters["color"])>> ELSE <<>>)

_build_filters(filters) ==
    (IF "min_price" \in DOMAIN filters \/ "max_price" \in DOMAIN filters
     THEN <<RangeClause("price", PriceBounds(filters))>> ELSE <<>>)
    \o (IF "category" \in DOMAIN filters
        THEN <<TermClause("category", filters["category"])>> ELSE <<>>)
    \o (IF "brand" \in DOMAIN filters
        THEN <<TermClause("brand", filters["brand"])>> ELSE <<>>)
    \o (IF "min_rating" \in DOMAIN filters
        THEN <<RangeClause("rating", "gte" :> filters["min_rating"])>> ELSE <<>>)

\* the outcome of a call of _build_filters: it has no raise statement and
\* reads no value, so it returns for every dict
BuildFiltersOutcome(filters) == [kind |-> "returned", value |-> _build_filters(filters)]

(* VectorSearch._build_filters (src/src/search/vector_search.py) *)

\* must_clauses as VectorSearch._build_filters collects them
VectorMustClauses(filters) ==
    (IF "min_price" \in DOMAIN filters \/ "max_price" \in DOMAIN filters
     THEN <<[range |-> ("price" :>
                [b \in {"gte" : k \in {"min_price"} \cap DOMAIN filters}
                       \cup {"lte" : k \in {"max_price"} \cap DOMAIN filters}
                   |-> IF b = "gte" THEN filters["min_price"]
                                    ELSE filters["max_price"]])]>>
     ELSE <<>>)
    \o (IF "category" \in DOMAIN filters
        THEN <<[term |-> ("category" :> filters["category"])]>> ELSE <<>>)
    \o (IF "brand" \in DOMAIN filters
        THEN <<[term |-> ("brand" :> filters["brand"])]>> ELSE <<>>)
    \o (IF "min_rating" \in DOMAIN filters
        THEN <<[range |-> ("rating" :> ("gte" :> filters["min_rating"]))]>>
        ELSE <<>>)

\* {"bool": {"must": must_clauses}} if must_clauses else {}
VectorSearch_build_filters(filters) ==
    IF VectorMustClauses(filters) # <<>>
    THEN [bool |-> [must |-> VectorMustClauses(filters)]]
    ELSE EmptyDict

VectorBuildFiltersOutcome(filters) ==
    [kind |-> "returned", value |-> VectorSearch_build_filters(filters)]

-----------------------------------------------------------------------------
(* The embedding generator (src/src/indexing/embeddings.py) *)

\* the vector the sentence-transformer model gives a text: a function of the
\* text, kept abstract
encode(text) == Vec(text)

encode_query(query) == encode(query)

\* what the model may raise instead of answering
EmbeddingErrors == {"RuntimeError"}

-----------------------------------------------------------------------------
(* The documents of the index (src/src/indexing/index_data.py) *)

index_name == "products_vector_search"

Product(id, title, description, category, brand, price, rating) ==
    [id |-> Str(id), title |-> Str(title), description |-> Str(description),
     category |-> Str(category), brand |-> Str(brand),
     price |-> Num(price), rating |-> Num(rating)]

\* products as data/products.json may hold them; index_products takes any
\* dict, and the second one carries a field of its own named score
Catalog ==
    <<Product("d1", "jacket", "warm", "a", "x", 1, 3),
      Product("d2", "laptop", "fast", "b", "x", 2, 1) @@ ("score" :> Num(5)),
      Product("d3", "coffee", "dark", "a", "y", 3, 2)>>

\* the product lists index_products is given: the prefixes of Catalog (a
\* search over fewer documents can answer nothing a search over more cannot)
ProductLists == {SubSeq(Catalog, 1, n) : n \in 0..Len(Catalog)}

VectorFields == {"title_vector", "description_vector", "combined_vector"}

\* doc = {**product, "title_vector": ..., "description_vector": ...,
\*        "combined_vector": ...}; the later keys win
IndexedSource(product) ==
    [title_vector |-> encode(product["title"].s),
     description_vector |-> encode(product["description"].s),
     combined_vector |-> encode(product["title"].s \o ". " \o product["description"].s)]
    @@ product

IndexAction(product) == [_id |-> product["id"], _source |-> IndexedSource(product)]

\* the index after index_products(products)
index_products(products) == {IndexAction(products[i]) : i \in 1..Len(products)}

-----------------------------------------------------------------------------
(* HybridSearch.search: the request it builds *)

\* Python's truth value of the filters argument: None and {} are false
Truthy(filters) == filters # None /\ DOMAIN filters # {}

MultiMatch(query) ==
    [multi_match |-> [query |-> query,
                      fields |-> <<"title^3", "description^2", "tags">>,
                      type |-> "best_fields",
                      fuzziness |-> "AUTO"]]

keyword_query(query, filters) ==
    [bool |-> ("should" :> <<MultiMatch(query)>>)
              @@ (IF Truthy(filters) THEN "filter" :> _build_filters(filters)
                  ELSE EmptyDict)]

\* a faulty variant: the kNN sub-query gets its filter whenever filters is not None
KnnQueryFilterUnlessNone(qv, top_k, filters) ==
    [field |-> "combined_vector", query_vector |-> qv,
     k |-> top_k, num_candidates |-> top_k * 3]
    @@ (IF filters # None THEN "filter" :> _build_filters(filters) ELSE EmptyDict)

\* a faulty variant: the kNN sub-query never gets a filter
KnnQueryNoFilter(qv, top_k, filters) ==
    [field |-> "combined_vector", query_vector |-> qv,
     k |-> top_k, num_candidates |-> top_k * 3]

\* a faulty variant: twice top_k candidates
KnnQueryTwiceTopK(qv, top_k, filters) ==
    [field |-> "combined_vector", query_vector |-> qv,
     k |-> top_k, num_candidates |-> top_k * 2]
    @@ (IF Truthy(filters) THEN "filter" :> _build_filters(filters) ELSE EmptyDict)

knn_query(qv, top_k, filters) ==
    [field |-> "combined_vector", query_vector |-> qv,
     k |-> top_k, num_candidates |-> top_k * 3]
    @@ (IF Truthy(filters) THEN "filter" :> _build_filters(filters) ELSE EmptyDict)

WindowSize == 50

RankConstant == 20

\* a faulty variant: size is the number of kNN candidates
SearchRequestSizeCandidates(query, qv, top_k, filters) ==
    [index |-> searcher.index_name,
     query |-> keyword_query(query, filters),
     knn |-> knn_query(qv, top_k, filters),
     size |-> top_k * 3,
     _source |-> [excludes |-> <<"*_vector">>],
     rank |-> [rrf |-> [window_size |-> WindowSize, rank_constant |-> RankConstant]]]

\* the keyword arguments of self.client.search(...)
SearchRequest(query, qv, top_k, filters) ==
    [index |-> searcher.index_name,
     query |-> keyword_query(query, filters),
     knn |-> knn_query(qv, top_k, filters),
     size |-> top_k,
     _source |-> [excludes |-> <<"*_vector">>],
     rank |-> [rrf |-> [window_size |-> WindowSize, rank_constant |-> RankConstant]]]

(* HybridSearch.search: the results it makes of the hits *)

\* {'id': hit['_id'], 'score': hit['_score'], **hit['_source']}: the keys of
\* _source come last, so they win
ResultOf(hit) == hit._source @@ ("id" :> hit._id) @@ ("score" :> hit._score)

ProcessResults(hits) == [i \in 1..Len(hits) |-> ResultOf(hits[i])]

-----------------------------------------------------------------------------
(* The Elasticsearch client, as self.client.search(...) uses it *)

\* what a clause compares a field against
ClauseValues(clause) ==
    IF "range" \in DOMAIN clause
    THEN UNION {{clause.range[f][b] : b \in DOMAIN clause.range[f]} :
                f \in DOMAIN clause.range}
    ELSE {clause.term[f] : f \in DOMAIN clause.term}

\* a range bound is a number or null (an open end), a term value is a string
WellFormedClause(clause) ==
    IF "range" \in DOMAIN clause
    THEN \A v \in ClauseValues(clause) : IsNum(v) \/ v = None
    ELSE \A v \in ClauseValues(clause) : IsStr(v)

InBound(value, b, bound) ==
    \/ bound = None
    \/ b = "gte" /\ value.n >= bound.n
    \/ b = "lte" /\ value.n <= bound.n

Matches(clause, source) ==
    IF "range" \in DOMAIN clause
    THEN \A f \in DOMAIN clause.range :
            /\ f \in DOMAIN source
            /\ IsNum(source[f])
            /\ \A b \in DOMAIN clause.range[f] : InBound(source[f], b, clause.range[f][b])
    ELSE \A f \in DOMAIN clause.term :
            f \in DOMAIN source /\ source[f] = clause.term[f]

\* the filter clauses a sub-query carries
FilterOf(subquery) ==
    IF "filter" \in DOMAIN subquery THEN subquery["filter"] ELSE <<>>

MatchesAll(clauses, source) ==
    \A i \in 1..Len(clauses) : Matches(clauses[i], source)

\* the documents the keyword sub-query may rank: those its filter lets through
KeywordEligible(req, doc) == MatchesAll(FilterOf(req.query.bool), doc._source)

\* the documents the kNN sub-query may rank: those its filter lets through
KnnEligible(req, doc) == MatchesAll(FilterOf(req.knn), doc._source)

\* the request passes the backend's validation
RequestAccepted(req) ==
    /\ req.size >= 0
    /\ req.knn["k"] >= 1
    /\ req.knn["num_candidates"] >= req.knn["k"]
    /\ req.rank.rrf.window_size >= req.size
    /\ \A i \in 1..Len(FilterOf(req.query.bool)) :
          WellFormedClause(FilterOf(req.query.bool)[i])
    /\ \A i \in 1..Len(FilterOf(req.knn)) : WellFormedClause(FilterOf(req.knn)[i])

\* _source filtering: "*_vector" drops every field whose name ends in _vector
Excluded(key, excludes) ==
    \E i \in 1..Len(excludes) : excludes[i] = "*_vector" /\ key \in VectorFields

SourceFiltered(source, excludes) ==
    [k \in {k \in DOMAIN source : ~Excluded(k, excludes)} |-> source[k]]

Min(a, b) == IF a <= b THEN a ELSE b

\* the hit lists the backend may answer: at most size distinct documents of a
\* sub-query, best fused score first; which documents match the text, how
\* near their vectors are and so the scores are the backend's
HitLists(req, docs) ==
    LET cand == {d \in docs : KeywordEligible(req, d) \/ KnnEligible(req, d)}
        Ranked(n) == {r \in [1..n -> cand] :
                        \A i, j \in 1..n : i # j => r[i] # r[j]}
        Scored(n) == {sc \in [1..n -> 1..MaxScore] :
                        \A i, j \in 1..n : i < j => sc[i] >= sc[j]}
    IN UNION {{[i \in 1..n |->
                  [_id |-> r[i]._id,
                   _score |-> Num(sc[i]),
                   _source |-> SourceFiltered(r[i]._source, req._source.excludes)]] :
               r \in Ranked(n), sc \in Scored(n)} :
              n \in 0..Min(req.size, Cardinality(cand))}

\* what the client may raise: the transport failing, or the backend
\* refusing the request
BackendErrors(req) ==
    IF RequestAccepted(req) THEN {"ConnectionError"}
    ELSE {"ConnectionError", "BadRequestError"}

-----------------------------------------------------------------------------
(* The state machine: HybridSearch.search, one invocation per caller *)

NotYet == [t |-> "unset"]

\* HybridSearch.__init__: the client and the index name of es_config
HybridSearchInit == [client |-> "es_config.get_client()", index_name |-> index_name]

\* no invocation of search under way
SearchIdle ==
    /\ pc = [c \in Callers |-> "idle"]
    /\ args = [c \in Callers |-> NotYet]
    /\ query_vector = [c \in Callers |-> NotYet]
    /\ request = [c \in Callers |-> NotYet]
    /\ response = [c \in Callers |-> NotYet]
    /\ outcome = [c \in Callers |-> NotYet]
    /\ embedCalls = [c \in Callers |-> 0]
    /\ searchCalls = [c \in Callers |-> 0]
    /\ searchAnswers = [c \in Callers |-> 0]
    /\ searcher = HybridSearchInit

\* _build_filters is not exercised on its own
TranslateOff ==
    /\ tState = "off"
    /\ tItems = <<>>
    /\ tFilters = EmptyDict
    /\ tOut = NotYet
    /\ vOut = NotYet

\* no SearchAgent is in use
AgentOff ==
    /\ max_history = 0
    /\ conversation_history = <<>>
    /\ chat = NotYet
    /\ exchanges = <<>>

Returned(value) == [kind |-> "returned", value |-> value]

Raised(type, by) == [kind |-> "raised", type |-> type, by |-> by]

\* the state once the index is filled and the searcher constructed
Init ==
    /\ store \in {index_products(ps) : ps \in ProductLists}
    /\ SearchIdle
    /\ TranslateOff
    /\ AgentOff

\* a faulty variant: the parameters are kept on the searcher, where the
\* invocation that entered last overwrites them
LocalsOfLastCaller(c) ==
    IF \E d \in Callers \ {c} : pc[d] = "encoding"
    THEN args[CHOOSE d \in Callers \ {c} : pc[d] = "encoding"]
    ELSE args[c]

\* query, top_k, semantic_weight and filters are parameters of search, so
\* locals of the one invocation
Locals(c) == args[c]

\* search(query, top_k, semantic_weight, filters) is entered and calls
\* embedding_generator.encode_query(query)
Search(c, query, top_k, semantic_weight, filters) ==
    /\ pc[c] = "idle"
    /\ args' = [args EXCEPT ![c] = [query |-> query, top_k |-> top_k,
                                    semantic_weight |-> semantic_weight,
                                    filters |-> filters]]
    /\ embedCalls' = [embedCalls EXCEPT ![c] = @ + 1]
    /\ pc' = [pc EXCEPT ![c] = "encoding"]
    /\ UNCHANGED <<store, query_vector, request, response, outcome, searchCalls>>
    /\ UNCHANGED <<searchAnswers, searcher, translateVars, agentVars>>

\* encode_query answers; search builds both sub-queries and calls client.search
EncodeQueryReturns(c) ==
    /\ pc[c] = "encoding"
    /\ query_vector' = [query_vector EXCEPT ![c] = encode_query(Locals(c).query)]
    /\ request' = [request EXCEPT ![c] =
                     SearchRequest(Locals(c).query, query_vector'[c],
                                   Locals(c).top_k, Locals(c).filters)]
    /\ searchCalls' = [searchCalls EXCEPT ![c] = @ + 1]
    /\ pc' = [pc EXCEPT ![c] = "searching"]
    /\ UNCHANGED <<store, args, response, outcome, embedCalls>>
    /\ UNCHANGED <<searchAnswers, searcher, translateVars, agentVars>>

\* a faulty variant: encode_query raises and search calls it once more
EncodeQueryRaisesAndIsRetried(c) ==
    /\ pc[c] = "encoding"
    /\ embedCalls[c] < 2
    /\ embedCalls' = [embedCalls EXCEPT ![c] = @ + 1]
    /\ UNCHANGED <<store, pc, args, query_vector, request, response, outcome, searchCalls>>
    /\ UNCHANGED <<searchAnswers, searcher, translateVars, agentVars>>

\* encode_query raises; nothing in search catches it
EncodeQueryRaises(c) ==
    /\ pc[c] = "encoding"
    /\ \E e \in EmbeddingErrors :
          outcome' = [outcome EXCEPT ![c] = Raised(e, "embedding_generator")]
    /\ pc' = [pc EXCEPT ![c] = "done"]
    /\ UNCHANGED <<store, args, query_vector, request, response, embedCalls, searchCalls>>
    /\ UNCHANGED <<searchAnswers, searcher, translateVars, agentVars>>

\* client.search answers; search makes a result of every hit and returns
ClientSearchReturns(c) ==
    /\ pc[c] = "searching"
    /\ RequestAccepted(request[c])
    /\ \E hits \in HitLists(request[c], store) :
          /\ response' = [response EXCEPT ![c] = hits]
          /\ outcome' = [outcome EXCEPT ![c] = Returned(ProcessResults(hits))]
    /\ searchAnswers' = [searchAnswers EXCEPT ![c] = @ + 1]
    /\ pc' = [pc EXCEPT ![c] = "done"]
    /\ UNCHANGED <<store, args, query_vector, request, embedCalls, searchCalls>>
    /\ UNCHANGED <<searcher, translateVars, agentVars>>

\* client.search raises; nothing in search catches it
ClientSearchRaises(c) ==
    /\ pc[c] = "searching"
    /\ \E e \in BackendErrors(request[c]) :
          outcome' = [outcome EXCEPT ![c] = Raised(e, "client")]
    /\ pc' = [pc EXCEPT ![c] = "done"]
    /\ UNCHANGED <<store, args, query_vector, request, response, embedCalls, searchCalls>>
    /\ UNCHANGED <<searchAnswers, searcher, translateVars, agentVars>>

\* the filters argument: None or a dict
FilterArgs == {None} \cup FilterDicts(MaxFilterKeys)

\* one caller, as in app.py's loop
Next ==
    \/ \E query \in Queries, top_k \in TopKs, w \in SemanticWeights, filters \in FilterArgs :
          Search("c1", query, top_k, w, filters)
    \/ EncodeQueryReturns("c1")
    \/ EncodeQueryRaises("c1")
    \/ ClientSearchReturns("c1")
    \/ ClientSearchRaises("c1")

Spec == Init /\ [][Next]_vars

-----------------------------------------------------------------------------
(* Two invocations of search at once, on one searcher *)

ConcTopKs == {1}

ConcFilters == {None, "category" :> Str("a")}

ConcInit ==
    /\ store = index_products(Catalog)
    /\ SearchIdle
    /\ TranslateOff
    /\ AgentOff

\* any caller takes the next step of its invocation
ConcNext ==
    \E c \in Callers :
        \/ \E query \in Queries, top_k \in ConcTopKs, w \in SemanticWeights,
              filters \in ConcFilters :
              Search(c, query, top_k, w, filters)
        \/ EncodeQueryReturns(c)
        \/ EncodeQueryRaises(c)
        \/ ClientSearchReturns(c)
        \/ ClientSearchRaises(c)

ConcSpec == ConcInit /\ [][ConcNext]_vars

-----------------------------------------------------------------------------
(* VectorSearch.search (src/src/search/vector_search.py), one invocation per
   caller *)

\* the kNN query of VectorSearch.search
vector_knn_query(qv, top_k, filters) ==
    [field |-> "combined_vector", query_vector |-> qv,
     k |-> top_k, num_candidates |-> top_k * 2]
    @@ (IF Truthy(filters) THEN "filter" :> VectorSearch_build_filters(filters)
        ELSE EmptyDict)

\* the keyword arguments of self.client.search(...) in VectorSearch.search
VectorSearchRequest(qv, top_k, filters) ==
    [index |-> searcher.index_name,
     knn |-> vector_knn_query(qv, top_k, filters),
     size |-> top_k,
     _source |-> [excludes |-> <<"*_vector">>]]

\* the hits with _score >= min_score, each made a result as
\* {'id': hit['_id'], 'score': hit['_score'], **hit['_source']}
VectorProcessResults(hits, min_score) ==
    LET kept == SelectSeq(hits, LAMBDA hit : hit._score.n >= min_score)
    IN [i \in 1..Len(kept) |->
          kept[i]._source @@ ("id" :> kept[i]._id) @@ ("score" :> kept[i]._score)]

\* the kNN filter is a query clause: the empty object {} is none
KnnFilterWellFormed(knn) ==
    "filter" \in DOMAIN knn =>
        /\ DOMAIN knn["filter"] = {"bool"}
        /\ \A i \in 1..Len(knn["filter"].bool.must) :
              WellFormedClause(knn["filter"].bool.must[i])

\* the request passes the backend's validation
VectorRequestAccepted(req) ==
    /\ req.size >= 0
    /\ req.knn["k"] >= 1
    /\ req.knn["num_candidates"] >= req.knn["k"]
    /\ KnnFilterWellFormed(req.knn)

\* the documents the kNN search may rank: those its filter lets through
VectorEligible(req, doc) ==
    "filter" \in DOMAIN req.knn => MatchesAll(req.knn["filter"].bool.must, doc._source)

\* the hit lists the backend may answer to a kNN search: at most size of the
\* k nearest eligible documents, nearest first; the similarities are the
\* backend's
VectorHitLists(req, docs) ==
    LET cand == {d \in docs : VectorEligible(req, d)}
        Ranked(n) == {r \in [1..n -> cand] :
                        \A i, j \in 1..n : i # j => r[i] # r[j]}
        Scored(n) == {sc \in [1..n -> 1..MaxScore] :
                        \A i, j \in 1..n : i < j => sc[i] >= sc[j]}
    IN UNION {{[i \in 1..n |->
                  [_id |-> r[i]._id,
                   _score |-> Num(sc[i]),
                   _source |-> SourceFiltered(r[i]._source, req._source.excludes)]] :
               r \in Ranked(n), sc \in Scored(n)} :
              n \in 0..Min(Min(req.size, req.knn["k"]), Cardinality(cand))}

VectorBackendErrors(req) ==
    IF VectorRequestAccepted(req) THEN {"ConnectionError"}
    ELSE {"ConnectionError", "BadRequestError"}

\* the min_score thresholds callers pass, on the scale of the scores
MinScores == 1..MaxScore

VectorFilters == {None, "category" :> Str("a"), "color" :> Str("red")}

\* search(query, top_k, min_score, filters) is entered and calls
\* embedding_generator.encode_query(query)
VectorSearch(c, query, top_k, min_score, filters) ==
    /\ pc[c] = "idle"
    /\ args' = [args EXCEPT ![c] = [query |-> query, top_k |-> top_k,
                                    min_score |-> min_score,
                                    filters |-> filters]]
    /\ embedCalls' = [embedCalls EXCEPT ![c] = @ + 1]
    /\ pc' = [pc EXCEPT ![c] = "encoding"]
    /\ UNCHANGED <<store, query_vector, request, response, outcome, searchCalls>>
    /\ UNCHANGED <<searchAnswers, searcher, translateVars, agentVars>>

\* encode_query answers; search builds the kNN query and calls client.search
VectorEncodeQueryReturns(c) ==
    /\ pc[c] = "encoding"
    /\ query_vector' = [query_vector EXCEPT ![c] = encode_query(Locals(c).query)]
    /\ request' = [request EXCEPT ![c] =
                     VectorSearchRequest(query_vector'[c], Locals(c).top_k,
                                         Locals(c).filters)]
    /\ searchCalls' = [searchCalls EXCEPT ![c] = @ + 1]
    /\ pc' = [pc EXCEPT ![c] = "searching"]
    /\ UNCHANGED <<store, args, response, outcome, embedCalls>>
    /\ UNCHANGED <<searchAnswers, searcher, translateVars, agentVars>>

\* client.search answers; search keeps the hits of min_score and returns
VectorClientSearchReturns(c) ==
    /\ pc[c] = "searching"
    /\ VectorRequestAccepted(request[c])
    /\ \E hits \in VectorHitLists(request[c], store) :
          /\ response' = [response EXCEPT ![c] = hits]
          /\ outcome' = [outcome EXCEPT ![c] =
                           Returned(VectorProcessResults(hits, Locals(c).min_score))]
    /\ searchAnswers' = [searchAnswers EXCEPT ![c] = @ + 1]
    /\ pc' = [pc EXCEPT ![c] = "done"]
    /\ UNCHANGED <<store, args, query_vector, request, embedCalls, searchCalls>>
    /\ UNCHANGED <<searcher, translateVars, agentVars>>

\* client.search raises; nothing in search catches it
VectorClientSearchRaises(c) ==
    /\ pc[c] = "searching"
    /\ \E e \in VectorBackendErrors(request[c]) :
          outcome' = [outcome EXCEPT ![c] = Raised(e, "client")]
    /\ pc' = [pc EXCEPT ![c] = "done"]
    /\ UNCHANGED <<store, args, query_vector, request, response, embedCalls, searchCalls>>
    /\ UNCHANGED <<searchAnswers, searcher, translateVars, agentVars>>

VectorNext ==
    \/ \E query \in Queries, top_k \in TopKs, min_score \in MinScores,
          filters \in VectorFilters :
          VectorSearch("c1", query, top_k, min_score, filters)
    \/ VectorEncodeQueryReturns("c1")
    \/ EncodeQueryRaises("c1")
    \/ VectorClientSearchReturns("c1")
    \/ VectorClientSearchRaises("c1")

VectorSpec == Init /\ [][VectorNext]_vars

-----------------------------------------------------------------------------
(* SearchAgent (src/src/agent/agent.py) *)

AgentQueries == {"jacket", "laptop"}

\* self.model.generate_content raised, or its text was not JSON
LLMFailed == [t |-> "raised"]

AnalysisKeys == {"intent", "search_terms", "filters"}

\* what json.loads(response.text) may be for the query: a full analysis,
\* one with a null filter, or one lacking a key
LLMAnalyses(query) ==
    LET full == [intent |-> Str(query), search_terms |-> Str(query),
                 filters |-> ("category" :> Str("a")) @@ ("brand" :> None)]
    IN {full} \cup {[k \in AnalysisKeys \ {m} |-> full[k]] : m \in {"filters", "intent"}}

\* {k: v for k, v in analysis['filters'].items() if v is not None}
WithoutNone(filters) == [k \in {k \in DOMAIN filters : filters[k] # None} |-> filters[k]]

\* _understand_query: the LLM's analysis with its null filters removed, or
\* the fallback when the LLM call or the parsing failed
_understand_query(query, answer) ==
    IF answer = LLMFailed
    THEN [search_terms |-> Str(query), filters |-> EmptyDict, intent |-> Str(query)]
    ELSE IF "filters" \in DOMAIN answer
         THEN [answer EXCEPT !["filters"] = WithoutNone(@)]
         ELSE answer

\* a hit as client.search answers it for an indexed product
AgentHit(product) ==
    [_id |-> product["id"], _score |-> Num(1),
     _source |-> SourceFiltered(IndexedSource(product), <<"*_vector">>)]

\* a product data/products.json may hold without a price
Unpriced == [k \in DOMAIN Catalog[3] \ {"price"} |-> Catalog[3][k]]

\* what self.searcher.search may do: raise, or return results
AgentSearchOutcomes ==
    {Raised("ConnectionError", "searcher"),
     Returned(<<>>),
     Returned(ProcessResults(<<AgentHit(Catalog[1])>>)),
     Returned(ProcessResults(<<AgentHit(Unpriced)>>))}

\* the keys _generate_response reads of each of the first five results
ResultKeys == {"title", "price", "rating", "description"}

CannedResponse == Str("I couldn't find any products matching your criteria.")

\* f"I found {len(results)} products that match '{user_query}'. The top
\* result is {results[0]['title']} for ${results[0]['price']}."
FallbackResponse(user_query, results) ==
    [t |-> "fstr", found |-> Len(results), query |-> user_query,
     title |-> results[1]["title"], price |-> results[1]["price"]]

\* _generate_response: the canned text for no results; KeyError for a result
\* without a key the prompt needs (outside the try); else the LLM's text, or
\* the fallback text when the LLM call failed
_generate_response(user_query, results, text) ==
    IF results = <<>> THEN Returned(CannedResponse)
    ELSE IF \E i \in 1..Min(Len(results), 5) : ~(ResultKeys \subseteq DOMAIN results[i])
         THEN Raised("KeyError", "_generate_response")
         ELSE IF text = LLMFailed
              THEN Returned(FallbackResponse(user_query, results))
              ELSE Returned(text)

\* history[-n:]
LastOf(history, n) ==
    IF n = 0 THEN history
    ELSE IF n >= Len(history) THEN history
         ELSE SubSeq(history, Len(history) - n + 1, Len(history))

\* a faulty variant: the exchange is recorded twice
UpdateHistoryTwice(history, user_query, agent_response, limit) ==
    history \o <<[user |-> user_query, agent |-> agent_response],
                 [user |-> user_query, agent |-> agent_response]>>

\* _update_history: append, then keep history[-max_history:] if longer
_update_history(history, user_query, agent_response, limit) ==
    LET appended == Append(history, [user |-> user_query, agent |-> agent_response])
    IN IF Len(appended) > limit THEN LastOf(appended, limit) ELSE appended

\* the outcome of chat(user_query) for what the LLM and the searcher do
ChatOutcome(user_query, answer, searched, text) ==
    LET analysis == _understand_query(user_query, answer)
    IN IF ~(AnalysisKeys \subseteq DOMAIN analysis) THEN Raised("KeyError", "chat")
       ELSE IF searched.kind = "raised" THEN searched
       ELSE LET generated == _generate_response(user_query, searched.value, text)
            IN IF generated.kind = "raised" THEN generated
               ELSE Returned([query |-> user_query,
                              response |-> generated.value,
                              result_count |-> Len(searched.value)])

\* SearchAgent.__init__: an empty history and the configured max_history
AgentInit ==
    /\ store = index_products(<<>>)
    /\ SearchIdle
    /\ TranslateOff
    /\ max_history \in 0..MaxHistory
    /\ conversation_history = <<>>
    /\ chat = NotYet
    /\ exchanges = <<>>

\* chat(user_query), from entry to return or exception
Chat(user_query, answer, searched, text) ==
    /\ Len(exchanges) < MaxChats
    /\ LET out == ChatOutcome(user_query, answer, searched, text)
       IN /\ chat' = [op |-> "chat", query |-> user_query, outcome |-> out,
                      before |-> conversation_history,
                      llmFailed |-> (answer = LLMFailed \/ text = LLMFailed),
                      hindered |-> (searched.kind = "raised"
                                      \/ (answer # LLMFailed
                                            /\ ~(AnalysisKeys \subseteq DOMAIN answer))
                                      \/ (searched.kind = "returned"
                                            /\ \E i \in 1..Len(searched.value) :
                                                  ~(ResultKeys \subseteq DOMAIN searched.value[i])))]
          /\ IF out.kind = "returned"
             THEN /\ conversation_history' =
                        _update_history(conversation_history, user_query,
                                        out.value.response, max_history)
                  /\ exchanges' = Append(exchanges, [user |-> user_query,
                                                     agent |-> out.value.response])
             ELSE UNCHANGED <<conversation_history, exchanges>>
    /\ UNCHANGED <<max_history, searchVars, searcher, translateVars>>

\* reset_conversation()
ResetConversation ==
    /\ conversation_history' = <<>>
    /\ exchanges' = <<>>
    /\ chat' = [op |-> "reset"]
    /\ UNCHANGED <<max_history, searchVars, searcher, translateVars>>

AgentNext ==
    \/ \E user_query \in AgentQueries :
          \E answer \in LLMAnalyses(user_query) \cup {LLMFailed},
             searched \in AgentSearchOutcomes,
             text \in {Str("llm"), LLMFailed} :
             Chat(user_query, answer, searched, text)
    \/ ResetConversation

AgentSpec == AgentInit /\ [][AgentNext]_vars

-----------------------------------------------------------------------------
(* _build_filters on its own *)

\* the item lists whose keys are those of the dict, in any order
ItemOrders(filters) ==
    {items \in [1..Cardinality(DOMAIN filters) -> DOMAIN filters] :
        \A i, j \in 1..Cardinality(DOMAIN filters) : i # j => items[i] # items[j]}

TranslateInit ==
    /\ store = index_products(<<>>)
    /\ SearchIdle
    /\ AgentOff
    /\ tState = "input"
    /\ tFilters \in FilterDicts(MaxTranslateKeys)
    /\ tItems \in ItemOrders(tFilters)
    /\ tOut = NotYet
    /\ vOut = NotYet

Translate ==
    /\ tState = "input"
    /\ tOut' = BuildFiltersOutcome(tFilters)
    /\ vOut' = VectorBuildFiltersOutcome(tFilters)
    /\ tState' = "done"
    /\ UNCHANGED <<tItems, tFilters>>
    /\ UNCHANGED <<searchVars, searcher, agentVars>>

TranslateNext == Translate

TranslateSpec == TranslateInit /\ [][TranslateNext]_vars

-----------------------------------------------------------------------------
(* Properties of search *)

Done(c) == pc[c] = "done"

HasReturned(c) == Done(c) /\ outcome[c].kind = "returned"

HasRaised(c) == Done(c) /\ outcome[c].kind = "raised"

\* C1: for top_k > 0, search returns at most top_k results, whichever hits
\* the backend chooses to answer the request of size top_k with.
C1_AtMostTopK ==
    \A c \in Callers :
        (HasReturned(c) /\ args[c].top_k > 0)
            => Len(outcome[c].value) <= args[c].top_k

\* a search without filters for one result, over an index of three
\* documents, has returned one result
C1_Witness ==
    \E c \in Callers :
        /\ HasReturned(c)
        /\ args[c].top_k = 1
        /\ ~Truthy(args[c].filters)
        /\ Cardinality(store) = 3
        /\ Len(outcome[c].value) = 1

\* the filter set holds key k alone, with a number
OnlyNumber(filters, k) ==
    filters # None /\ DOMAIN filters = {k} /\ IsNum(filters[k])

FieldAtMost(result, field, bound) ==
    field \in DOMAIN result /\ IsNum(result[field]) /\ result[field].n <= bound.n

FieldAtLeast(result, field, bound) ==
    field \in DOMAIN result /\ IsNum(result[field]) /\ result[field].n >= bound.n

\* C2: with only max_price = P every returned document has price <= P; with
\* only min_price = P, price >= P; with only min_rating = R, rating >= R.
C2_BoundsRespected ==
    \A c \in Callers :
        HasReturned(c) =>
            LET f == args[c].filters
                rs == outcome[c].value
            IN /\ OnlyNumber(f, "max_price") =>
                    \A i \in 1..Len(rs) : FieldAtMost(rs[i], "price", f["max_price"])
               /\ OnlyNumber(f, "min_price") =>
                    \A i \in 1..Len(rs) : FieldAtLeast(rs[i], "price", f["min_price"])
               /\ OnlyNumber(f, "min_rating") =>
                    \A i \in 1..Len(rs) : FieldAtLeast(rs[i], "rating", f["min_rating"])

\* a search with only max_price = P has returned a document priced exactly
\* P while the index holds a dearer one
C2_Witness ==
    \E c \in Callers :
        /\ HasReturned(c)
        /\ OnlyNumber(args[c].filters, "max_price")
        /\ \E i \in 1..Len(outcome[c].value) :
              outcome[c].value[i]["price"] = args[c].filters["max_price"]
        /\ \E d \in store : d._source["price"].n > args[c].filters["max_price"].n

\* C3: when the embedding call fails, search raises DependencyError and no
\* request was sent to the backend.
C3_EmbeddingFailureIsDependencyError ==
    \A c \in Callers :
        (Done(c) /\ query_vector[c] = NotYet)
            => /\ outcome[c].kind = "raised"
               /\ outcome[c].type = "DependencyError"
               /\ searchCalls[c] = 0

\* C4: search called with top_k <= 0 ends in InvalidArgument.
C4_NonPositiveTopKRejected ==
    \A c \in Callers :
        (Done(c) /\ args[c].top_k <= 0)
            => outcome[c].kind = "raised" /\ outcome[c].type = "InvalidArgument"

\* C5: in every request search submits, the keyword sub-query and the kNN
\* sub-query carry the same filter list, or neither carries one.
C5_SameFiltersOnBothSubQueries ==
    \A c \in Callers :
        searchCalls[c] > 0 =>
            LET kw == request[c].query.bool
                knn == request[c].knn
            IN /\ ("filter" \in DOMAIN kw) <=> ("filter" \in DOMAIN knn)
               /\ ("filter" \in DOMAIN kw) => kw["filter"] = knn["filter"]

\* a request was submitted whose two sub-queries carry a clause
C5_Witness ==
    \E c \in Callers :
        /\ searchCalls[c] > 0
        /\ "filter" \in DOMAIN request[c].query.bool
        /\ "filter" \in DOMAIN request[c].knn
        /\ Len(request[c].knn["filter"]) >= 1

\* the numeric keys of a filter set whose value is text that is no number
NonNumericKeys(filters) ==
    {k \in NumericKeys \cap DOMAIN filters : IsStr(filters[k]) /\ filters[k].s # ""}

\* C8: search given a numeric filter whose value is not a number ends in
\* InvalidArgument, once it comes to translate the filters, and has sent no
\* request to the backend.
C8_NonNumericFilterRejected ==
    \A c \in Callers :
        (query_vector[c] # NotYet /\ NonNumericKeys(args[c].filters) # {})
            => /\ HasRaised(c)
               /\ outcome[c].type = "InvalidArgument"
               /\ searchCalls[c] = 0

\* C9: every result is free of vector fields, its id is the hit's _id and
\* its score the hit's _score.
C9_ResultsCarryHitIdAndScore ==
    \A c \in Callers :
        HasReturned(c) =>
            /\ Len(outcome[c].value) = Len(response[c])
            /\ \A i \in 1..Len(outcome[c].value) :
                  /\ DOMAIN outcome[c].value[i] \cap VectorFields = {}
                  /\ outcome[c].value[i]["id"] = response[c][i]._id
                  /\ outcome[c].value[i]["score"] = response[c][i]._score

\* C10: the scores of the returned results never increase along the list.
C10_ScoresDescending ==
    \A c \in Callers :
        HasReturned(c) =>
            \A i, j \in 1..Len(outcome[c].value) :
                i < j => outcome[c].value[i]["score"].n >= outcome[c].value[j]["score"].n

-----------------------------------------------------------------------------
(* Properties of _build_filters *)

Translated == tState = "done"

NullOrEmpty(v) == v = None \/ v = Str("")

\* the dict without the keys whose value is None or ""
WithoutNullOrEmpty(filters) ==
    [k \in {k \in DOMAIN filters : ~NullOrEmpty(filters[k])} |-> filters[k]]

\* the dict restricted to the keys _build_filters knows
KnownOnly(filters) == [k \in DOMAIN filters \cap KnownKeys |-> filters[k]]

\* C6: a key with a null or empty value is translated like an absent key,
\* and no clause compares a field against a null or empty value.
C6_NullOrEmptyValueIsAbsent ==
    Translated =>
        /\ tOut.kind = "returned"
        /\ tOut.value = _build_filters(WithoutNullOrEmpty(tFilters))
        /\ \A i \in 1..Len(tOut.value) :
              \A v \in ClauseValues(tOut.value[i]) : ~NullOrEmpty(v)

\* C7: the empty filter set translates to no clause, and keys other than
\* the five known ones change nothing in the translation.
C7_EmptyAndUnknownKeys ==
    Translated =>
        /\ tOut.kind = "returned"
        /\ DOMAIN tFilters = {} => tOut.value = <<>>
        /\ tOut.value = _build_filters(KnownOnly(tFilters))

\* a filter set with a known and an unknown key was translated to a clause
C7_Witness ==
    /\ Translated
    /\ DOMAIN tFilters \cap UnknownKeys # {}
    /\ DOMAIN tFilters \cap KnownKeys # {}
    /\ Len(tOut.value) = 1

-----------------------------------------------------------------------------
(* Further properties of search *)

\* client.search was called and raised instead of answering
BackendFailed(c) == Done(c) /\ searchCalls[c] > searchAnswers[c]

\* C11: when the backend call fails, search raises DependencyError and
\* returns no result list, empty or partial, in its place.
C11_BackendFailureIsDependencyError ==
    \A c \in Callers :
        BackendFailed(c)
            => outcome[c].kind = "raised" /\ outcome[c].type = "DependencyError"

\* client.search has been called with the request
Submitted(c) == searchCalls[c] > 0

\* the request the invocation makes of its own arguments alone
OwnRequest(c) ==
    SearchRequest(args[c].query, encode_query(args[c].query),
                  args[c].top_k, args[c].filters)

\* the invocation's request and result are those of its own arguments
InIsolation(c) ==
    /\ Submitted(c) => request[c] = OwnRequest(c)
    /\ HasReturned(c) =>
          /\ searchAnswers[c] = 1
          /\ response[c] \in HitLists(OwnRequest(c), store)
          /\ outcome[c].value = ProcessResults(response[c])

\* C12: invocations of search on one searcher share no mutable state: each
\* submits the request and returns the result of its own arguments, and no
\* step of search changes the searcher (client, index name) or the stored
\* documents.
C12_SearchesAreIsolated ==
    /\ [](\A c \in Callers : InIsolation(c))
    /\ [][store' = store /\ searcher' = searcher]_vars

\* one invocation has returned while the other, entered with another query
\* and other filters, has its request with the backend
C12_Witness ==
    \E c, d \in Callers :
        /\ HasReturned(c)
        /\ Len(outcome[c].value) = 1
        /\ pc[d] = "searching"
        /\ args[c].query # args[d].query
        /\ args[c].filters # args[d].filters

\* the two argument lists differ in semantic_weight and in nothing else
DifferOnlyInWeight(a, b) ==
    /\ a.semantic_weight # b.semantic_weight
    /\ a.query = b.query
    /\ a.top_k = b.top_k
    /\ a.filters = b.filters

\* C13: semantic_weight determines the weighting in the request: two calls
\* that differ only in semantic_weight submit requests that differ.
C13_WeightDeterminesRequest ==
    \A c, d \in Callers :
        (Submitted(c) /\ Submitted(d) /\ DifferOnlyInWeight(args[c], args[d]))
            => request[c] # request[d]

\* the invocation ended in an exception of the named collaborator
FailedIn(c, by) == HasRaised(c) /\ outcome[c].by = by

\* C15: in one invocation encode_query has answered before client.search is
\* called, and each is called at most once: after either has failed neither
\* is called again.
C15_SequentialNoRetry ==
    \A c \in Callers :
        /\ embedCalls[c] <= 1
        /\ searchCalls[c] <= 1
        /\ Submitted(c) => (embedCalls[c] = 1 /\ query_vector[c] # NotYet)
        /\ FailedIn(c, "embedding_generator") => searchCalls[c] = 0
        /\ pc[c] = "encoding" => searchCalls[c] = 0

\* client.search has failed after encode_query answered, and each was
\* called once
C15_Witness ==
    \E c \in Callers :
        /\ FailedIn(c, "client")
        /\ query_vector[c] # NotYet
        /\ embedCalls[c] = 1
        /\ searchCalls[c] = 1

\* C16: for every top_k the kNN sub-query of the request targets
\* combined_vector, asks for k = top_k neighbours and num_candidates =
\* 3 * top_k candidates.
C16_KnnOversamplesThreefold ==
    \A c \in Callers :
        Submitted(c) =>
            /\ request[c].knn["field"] = "combined_vector"
            /\ request[c].knn["k"] = args[c].top_k
            /\ request[c].knn["num_candidates"] = 3 * args[c].top_k

\* a search for two results has asked for k = 2 of 6 candidates
C16_Witness ==
    \E c \in Callers :
        /\ Submitted(c)
        /\ args[c].top_k = 2
        /\ request[c].knn["k"] = 2
        /\ request[c].knn["num_candidates"] = 6

-----------------------------------------------------------------------------
(* Further properties of _build_filters *)

\* the place of a clause in the order price, category, brand, rating; 0 for
\* any other clause
Place(clause) ==
    IF "range" \in DOMAIN clause
    THEN IF DOMAIN clause.range = {"price"} THEN 1
         ELSE IF DOMAIN clause.range = {"rating"} THEN 4 ELSE 0
    ELSE IF DOMAIN clause.term = {"category"} THEN 2
         ELSE IF DOMAIN clause.term = {"brand"} THEN 3 ELSE 0

\* C14: for every filter set and every order of its keys, the clauses come
\* out as price range (holding gte and/or lte), category, brand, rating, each
\* at most once.
C14_FixedClauseOrder ==
    Translated =>
        LET cl == tOut.value
        IN /\ \A i \in 1..Len(cl) : Place(cl[i]) > 0
           /\ \A i, j \in 1..Len(cl) : i < j => Place(cl[i]) < Place(cl[j])
           /\ \A i \in 1..Len(cl) :
                 Place(cl[i]) = 1 =>
                    /\ DOMAIN cl[i].range["price"] # {}
                    /\ DOMAIN cl[i].range["price"] \subseteq {"gte", "lte"}

\* a dict whose keys were inserted as min_rating, then category, has been
\* translated to the category clause, then the rating clause
C14_Witness ==
    /\ Translated
    /\ tItems = <<"min_rating", "category">>
    /\ Len(tOut.value) = 2
    /\ Place(tOut.value[1]) = 2
    /\ Place(tOut.value[2]) = 4

\* the filter as VectorSearch puts the clauses: the must list of one bool
IsBoolMustOf(f, clauses) ==
    /\ DOMAIN f = {"bool"}
    /\ DOMAIN f.bool = {"must"}
    /\ f.bool.must = clauses

\* C19: VectorSearch and HybridSearch translate every filter set to the same
\* clauses in the same order, VectorSearch as the must list of one bool
\* clause; a filter set that yields no clause constrains neither request
\* (HybridSearch then sends the empty clause list). Both translate only a
\* filter set `if filters:` lets through.
C19_VectorAndHybridAgree ==
    (Translated /\ Truthy(tFilters)) => IsBoolMustOf(vOut.value, tOut.value)

-----------------------------------------------------------------------------
(* Properties of SearchAgent *)

\* the last call on the agent was a chat
Chatted == chat # NotYet /\ chat.op = "chat"

\* the last n entries of the sequence, all of them if it has no more
MostRecent(seq, n) ==
    IF n >= Len(seq) THEN seq ELSE SubSeq(seq, Len(seq) - n + 1, Len(seq))

\* C17: after any sequence of chat and reset_conversation, for every
\* max_history >= 0, conversation_history holds at most max_history entries,
\* the most recent completed exchanges in their order, and is empty after
\* reset_conversation.
C17_HistoryHoldsMostRecent ==
    /\ Len(conversation_history) <= max_history
    /\ conversation_history = MostRecent(exchanges, max_history)
    /\ (chat # NotYet /\ chat.op = "reset") => conversation_history = <<>>

IsSuffix(s, t) ==
    Len(s) <= Len(t) /\ s = SubSeq(t, Len(t) - Len(s) + 1, Len(t))

\* C18: a chat that returns has recorded its exchange, once, as the last
\* entry of conversation_history, the entries before it being the latest of
\* the former history; a chat that fails leaves conversation_history as it
\* was; a chat in which only the LLM failed returns and records.
C18_ChatRecordsOnReturnOnly ==
    Chatted =>
        /\ chat.outcome.kind = "returned" =>
              LET h == conversation_history
              IN /\ h # <<>>
                 /\ h[Len(h)] = [user |-> chat.query,
                                 agent |-> chat.outcome.value.response]
                 /\ IsSuffix(SubSeq(h, 1, Len(h) - 1), chat.before)
                 /\ \/ Len(h) = Len(chat.before) + 1
                    \/ max_history > 0 /\ Len(h) = max_history
        /\ chat.outcome.kind = "raised" => conversation_history = chat.before
        /\ (chat.llmFailed /\ ~chat.hindered) => chat.outcome.kind = "returned"

\* a chat in which the LLM failed has returned the fallback text and
\* recorded it after an earlier exchange
C18_Witness ==
    /\ Chatted
    /\ chat.llmFailed
    /\ chat.outcome.kind = "returned"
    /\ chat.outcome.value.response.t = "fstr"
    /\ chat.before # <<>>
    /\ Len(conversation_history) = Len(chat.before) + 1

\* a chat has failed on the search raising, after an earlier exchange, and
\* the history is as before
C18_FailureWitness ==
    /\ Chatted
    /\ chat.outcome.kind = "raised"
    /\ chat.outcome.by = "searcher"
    /\ chat.before # <<>>
    /\ conversation_history = chat.before

-----------------------------------------------------------------------------
(* Properties of VectorSearch.search *)

\* the hits of the response that reach min_score, in the response's order
HitsOfMinScore(c) ==
    SelectSeq(response[c], LAMBDA hit : hit._score.n >= args[c].min_score)

\* C20: VectorSearch.search returns exactly the hits whose score is >=
\* min_score, in the backend's order, each once: at most top_k results, each
\* with the id and the score of its hit, every score >= min_score.
C20_ReturnsHitsOfMinScore ==
    \A c \in Callers :
        (HasReturned(c) /\ "min_score" \in DOMAIN args[c]) =>
            LET rs == outcome[c].value
                kept == HitsOfMinScore(c)
            IN /\ Len(rs) = Len(kept)
               /\ Len(rs) <= args[c].top_k
               /\ \A i \in 1..Len(rs) :
                     /\ rs[i]["id"] = kept[i]._id
                     /\ rs[i]["score"] = kept[i]._score
                     /\ rs[i]["score"].n >= args[c].min_score
               /\ \A i, j \in 1..Len(rs) : i # j => rs[i]["id"] # rs[j]["id"]

====
